---- MODULE Spec2Model ----
(***************************************************************************)
(* Model of src/src/style.rs: the Style bitset, Style::apply's translation *)
(* of a Style into a termcolor ColorSpec, and the StyleCursor that caches  *)
(* the last applied Style.                                                 *)
(*                                                                         *)
(* A Style { bits: u64 } is modelled as the set of its set bit positions   *)
(* (0..39); bitwise or is set union and == is set equality.                *)
(***************************************************************************)
EXTENDS Integers, Sequences, FiniteSets, TLC

VARIABLES
  cursor,         \* "none": no StyleCursor yet; "live"; "failed": new returned Err
  current_style,  \* StyleCursor.current_style
  term,           \* the terminal the cursor (or a direct caller) writes to
  hist,           \* the finished calls, oldest first
  arg             \* what a direct caller of Style::apply is about to pass

vars == <<cursor, current_style, term, hist, arg>>

\* ---------------------------------------------------------------- bounds
\* Number of bit positions the Styles combined by with / contains draw on.
MaxPool == 4
\* Largest number of cursor operations (new / set_style) in one behaviour.
MaxOps == 4
\* Largest number of bits set in a Style handed directly to Style::apply.
MaxBits == 3

\* ------------------------------------------------------- Style (bitset)
\* bits: u64
BitsWidth == 64

\* enum StyleBit, in declaration order; StyleBit::X as u64 is index - 1.
StyleBit ==
  << "FG_BLACK", "FG_BLUE", "FG_BRIGHT_BLACK", "FG_BRIGHT_BLUE",
     "FG_BRIGHT_CYAN", "FG_BRIGHT_GREEN", "FG_BRIGHT_MAGENTA",
     "FG_BRIGHT_RED", "FG_BRIGHT_WHITE", "FG_BRIGHT_YELLOW", "FG_CYAN",
     "FG_GREEN", "FG_MAGENTA", "FG_RED", "FG_WHITE", "FG_YELLOW",
     "BG_BLACK", "BG_BLUE", "BG_BRIGHT_BLACK", "BG_BRIGHT_BLUE",
     "BG_BRIGHT_CYAN", "BG_BRIGHT_GREEN", "BG_BRIGHT_MAGENTA",
     "BG_BRIGHT_RED", "BG_BRIGHT_WHITE", "BG_BRIGHT_YELLOW", "BG_CYAN",
     "BG_GREEN", "BG_MAGENTA", "BG_RED", "BG_WHITE", "BG_YELLOW",
     "BOLD", "DIM", "ITALIC", "UNDERLINE", "BLINK", "STANDOUT", "REVERSE",
     "SECURE" >>

\* The constants as they would be if the shift were done on 32 bits
\* (1u32.wrapping_shl(n) shifts by n mod 32) before widening.
StyleConst_u32(name) ==
  { (i - 1) % 32 : i \in { j \in 1..Len(StyleBit) : StyleBit[j] = name } }

\* pub const $style: Style = Style { bits: 1 << (StyleBit::$style as u64) }
StyleConst(name) == { i - 1 : i \in { j \in 1..Len(StyleBit) : StyleBit[j] = name } }

\* pub const DEFAULT: Style = Style { bits: 0 }
DEFAULT == {}

\* Style::new() -> Style::default(): the derived Default, bits = 0.
Style_new == {}

\* with as it would be with ^ in place of |.
with_xor(self, other_style) == (self \ other_style) \cup (other_style \ self)

\* Style::with: bits: self.bits | other_style.bits
with(self, other_style) == self \cup other_style

\* contains as it would be if it tested for any common bit
\* (self.bits & other_style.bits != 0).
contains_any(self, other_style) == other_style = {} \/ self \cap other_style # {}

\* Style::contains: self.with(other_style) == self
contains(self, other_style) == with(self, other_style) = self

\* ----------------------------------------------------------- ColorSpec
\* ColorSpec::new(): nothing set.
ColorSpecNew ==
  [ fg |-> "None", bg |-> "None", intense |-> FALSE, bold |-> FALSE,
    dimmed |-> FALSE, italic |-> FALSE, underline |-> FALSE ]

\* The fg_color! invocations, in source order.
FgColors ==
  << [style |-> StyleConst("FG_BLACK"),          color |-> "Black",   bright |-> FALSE],
     [style |-> StyleConst("FG_BLUE"),           color |-> "Blue",    bright |-> FALSE],
     [style |-> StyleConst("FG_BRIGHT_BLACK"),   color |-> "Black",   bright |-> TRUE],
     [style |-> StyleConst("FG_BRIGHT_BLUE"),    color |-> "Blue",    bright |-> TRUE],
     [style |-> StyleConst("FG_BRIGHT_CYAN"),    color |-> "Cyan",    bright |-> TRUE],
     [style |-> StyleConst("FG_BRIGHT_GREEN"),   color |-> "Green",   bright |-> TRUE],
     [style |-> StyleConst("FG_BRIGHT_MAGENTA"), color |-> "Magenta", bright |-> TRUE],
     [style |-> StyleConst("FG_BRIGHT_RED"),     color |-> "Red",     bright |-> TRUE],
     [style |-> StyleConst("FG_BRIGHT_WHITE"),   color |-> "White",   bright |-> TRUE],
     [style |-> StyleConst("FG_BRIGHT_YELLOW"),  color |-> "Yellow",  bright |-> TRUE],
     [style |-> StyleConst("FG_CYAN"),           color |-> "Cyan",    bright |-> FALSE],
     [style |-> StyleConst("FG_GREEN"),          color |-> "Green",   bright |-> FALSE],
     [style |-> StyleConst("FG_MAGENTA"),        color |-> "Magenta", bright |-> FALSE],
     [style |-> StyleConst("FG_RED"),            color |-> "Red",     bright |-> FALSE],
     [style |-> StyleConst("FG_WHITE"),          color |-> "White",   bright |-> FALSE],
     [style |-> StyleConst("FG_YELLOW"),         color |-> "Yellow",  bright |-> FALSE] >>

\* The bg_color! invocations, in source order.
BgColors ==
  << [style |-> StyleConst("BG_BLACK"),          color |-> "Black",   bright |-> FALSE],
     [style |-> StyleConst("BG_BLUE"),           color |-> "Blue",    bright |-> FALSE],
     [style |-> StyleConst("BG_BRIGHT_BLACK"),   color |-> "Black",   bright |-> TRUE],
     [style |-> StyleConst("BG_BRIGHT_BLUE"),    color |-> "Blue",    bright |-> TRUE],
     [style |-> StyleConst("BG_BRIGHT_CYAN"),    color |-> "Cyan",    bright |-> TRUE],
     [style |-> StyleConst("BG_BRIGHT_GREEN"),   color |-> "Green",   bright |-> TRUE],
     [style |-> StyleConst("BG_BRIGHT_MAGENTA"), color |-> "Magenta", bright |-> TRUE],
     [style |-> StyleConst("BG_BRIGHT_RED"),     color |-> "Red",     bright |-> TRUE],
     [style |-> StyleConst("BG_BRIGHT_WHITE"),   color |-> "White",   bright |-> TRUE],
     [style |-> StyleConst("BG_BRIGHT_YELLOW"),  color |-> "Yellow",  bright |-> TRUE],
     [style |-> StyleConst("BG_CYAN"),           color |-> "Cyan",    bright |-> FALSE],
     [style |-> StyleConst("BG_GREEN"),          color |-> "Green",   bright |-> FALSE],
     [style |-> StyleConst("BG_MAGENTA"),        color |-> "Magenta", bright |-> FALSE],
     [style |-> StyleConst("BG_RED"),            color |-> "Red",     bright |-> FALSE],
     [style |-> StyleConst("BG_WHITE"),          color |-> "White",   bright |-> FALSE],
     [style |-> StyleConst("BG_YELLOW"),         color |-> "Yellow",  bright |-> FALSE] >>

\* The attr! list as it would be if STANDOUT were given bold as a
\* substitute instead of being left commented out.
Attrs_standout ==
  << [style |-> StyleConst("BOLD"),      builder_fn |-> "set_bold"],
     [style |-> StyleConst("DIM"),       builder_fn |-> "set_dimmed"],
     [style |-> StyleConst("ITALIC"),    builder_fn |-> "set_italic"],
     [style |-> StyleConst("UNDERLINE"), builder_fn |-> "set_underline"],
     [style |-> StyleConst("STANDOUT"),  builder_fn |-> "set_bold"] >>

\* The attr! invocations that are not commented out, in source order.
Attrs ==
  << [style |-> StyleConst("BOLD"),      builder_fn |-> "set_bold"],
     [style |-> StyleConst("DIM"),       builder_fn |-> "set_dimmed"],
     [style |-> StyleConst("ITALIC"),    builder_fn |-> "set_italic"],
     [style |-> StyleConst("UNDERLINE"), builder_fn |-> "set_underline"] >>

\* A build state is the ColorSpec under construction plus the calls made on
\* the terminal so far: st = [spec |-> ColorSpec, calls |-> Seq(STRING)].

\* fg_color! as it would be without the term.supports_color() test.
fg_color_ungated(self, supports_color, st, e) ==
  IF contains(self, e.style)
    THEN [ calls |-> st.calls,
           spec  |-> IF e.bright
                       THEN [st.spec EXCEPT !.fg = e.color, !.intense = TRUE]
                       ELSE [st.spec EXCEPT !.fg = e.color] ]
    ELSE st

\* fg_color! as it would be if a foreground already set were kept.
fg_color_keepfirst(self, supports_color, st, e) ==
  IF contains(self, e.style)
    THEN [ calls |-> Append(st.calls, "supports_color"),
           spec  |-> IF supports_color /\ st.spec.fg = "None"
                       THEN IF e.bright
                              THEN [st.spec EXCEPT !.fg = e.color, !.intense = TRUE]
                              ELSE [st.spec EXCEPT !.fg = e.color]
                       ELSE st.spec ]
    ELSE st

\* fg_color! as it would be if the plain arm were a copy of the bright arm.
fg_color_intense(self, supports_color, st, e) ==
  IF contains(self, e.style)
    THEN [ calls |-> Append(st.calls, "supports_color"),
           spec  |-> IF supports_color
                       THEN [st.spec EXCEPT !.fg = e.color, !.intense = TRUE]
                       ELSE st.spec ]
    ELSE st

\* One expansion of fg_color!: the contains test, then the supports_color
\* query, then set_fg and (bright arm only) set_intense(true).
fg_color(self, supports_color, st, e) ==
  IF contains(self, e.style)
    THEN [ calls |-> Append(st.calls, "supports_color"),
           spec  |-> IF supports_color
                       THEN IF e.bright
                              THEN [st.spec EXCEPT !.fg = e.color, !.intense = TRUE]
                              ELSE [st.spec EXCEPT !.fg = e.color]
                       ELSE st.spec ]
    ELSE st

\* bg_color! as it would be if the plain arm called set_intense(false).
bg_color_clear(self, supports_color, st, e) ==
  IF contains(self, e.style)
    THEN [ calls |-> Append(st.calls, "supports_color"),
           spec  |-> IF supports_color
                       THEN IF e.bright
                              THEN [st.spec EXCEPT !.bg = e.color, !.intense = TRUE]
                              ELSE [st.spec EXCEPT !.bg = e.color, !.intense = FALSE]
                       ELSE st.spec ]
    ELSE st

\* One expansion of bg_color!.
bg_color(self, supports_color, st, e) ==
  IF contains(self, e.style)
    THEN [ calls |-> Append(st.calls, "supports_color"),
           spec  |-> IF supports_color
                       THEN IF e.bright
                              THEN [st.spec EXCEPT !.bg = e.color, !.intense = TRUE]
                              ELSE [st.spec EXCEPT !.bg = e.color]
                       ELSE st.spec ]
    ELSE st

\* One expansion of attr!: not gated on supports_color.
attr(self, st, e) ==
  IF contains(self, e.style)
    THEN [ st EXCEPT !.spec =
             CASE e.builder_fn = "set_bold"      -> [st.spec EXCEPT !.bold = TRUE]
               [] e.builder_fn = "set_dimmed"    -> [st.spec EXCEPT !.dimmed = TRUE]
               [] e.builder_fn = "set_italic"    -> [st.spec EXCEPT !.italic = TRUE]
               [] e.builder_fn = "set_underline" -> [st.spec EXCEPT !.underline = TRUE] ]
    ELSE st

RECURSIVE FgPass(_, _, _, _)
FgPass(self, supports_color, st, i) ==
  IF i > Len(FgColors) THEN st
  ELSE FgPass(self, supports_color, fg_color(self, supports_color, st, FgColors[i]), i + 1)

RECURSIVE BgPass(_, _, _, _)
BgPass(self, supports_color, st, i) ==
  IF i > Len(BgColors) THEN st
  ELSE BgPass(self, supports_color, bg_color(self, supports_color, st, BgColors[i]), i + 1)

RECURSIVE AttrPass(_, _, _)
AttrPass(self, st, i) ==
  IF i > Len(Attrs) THEN st
  ELSE AttrPass(self, attr(self, st, Attrs[i]), i + 1)

\* The body of apply between term.reset()? and term.set_color(&spec).
BuildSpec(self, supports_color) ==
  AttrPass(self,
    BgPass(self, supports_color,
      FgPass(self, supports_color,
             [spec |-> ColorSpecNew, calls |-> <<>>], 1), 1), 1)

\* ------------------------------------------------------------ terminal
\* The WriteColor collaborator: supports_color() answers t.color; reset and
\* set_color are io::Result calls that the environment may fail.  t.active
\* is the styling in effect, t.resets / t.sets count the calls received.
Fails == {"none", "reset", "set_color"}

\* apply as it would be if it returned early for the zero Style, which
\* sets nothing.
apply_lazy(self, t, fail) ==
  IF self = DEFAULT
    THEN [ term |-> t, result |-> "ok", error |-> "none", calls |-> <<>>,
           spec |-> ColorSpecNew ]
  ELSE IF fail = "reset"
    THEN [ term   |-> [t EXCEPT !.resets = @ + 1],
           result |-> "err",
           error  |-> "reset",
           calls  |-> <<"reset">>,
           spec   |-> ColorSpecNew ]
    ELSE LET st == BuildSpec(self, t.color)
         IN  [ term   |-> [t EXCEPT !.resets = @ + 1, !.sets = @ + 1,
                                    !.active = IF fail = "set_color"
                                                 THEN ColorSpecNew ELSE st.spec],
               result |-> IF fail = "set_color" THEN "err" ELSE "ok",
               error  |-> IF fail = "set_color" THEN "set_color" ELSE "none",
               calls  |-> <<"reset">> \o st.calls \o <<"set_color">>,
               spec   |-> st.spec ]

\* apply as it would be if the result of term.reset() were dropped
\* (let _ = term.reset();) instead of propagated with ?.
apply_swallow(self, t, fail) ==
  LET st == BuildSpec(self, t.color)
  IN  [ term   |-> [t EXCEPT !.resets = @ + 1, !.sets = @ + 1,
                             !.active = IF fail = "set_color"
                                          THEN ColorSpecNew ELSE st.spec],
        result |-> IF fail = "set_color" THEN "err" ELSE "ok",
        error  |-> IF fail = "set_color" THEN "set_color" ELSE "none",
        calls  |-> <<"reset">> \o st.calls \o <<"set_color">>,
        spec   |-> st.spec ]

\* Style::apply(self, term).  fail names the terminal call that returns Err
\* during this apply, if any.  Yields the terminal afterwards, the io::Result
\* ("ok" / "err"), the terminal call whose io::Error it carries ("none" for
\* Ok), the calls made on the terminal in order, and the ColorSpec handed
\* to set_color (ColorSpecNew when set_color was not reached).
\* A reset that fails leaves the styling in effect as it was; a set_color
\* that fails leaves the terminal as the reset before it made it.
apply(self, t, fail) ==
  IF fail = "reset"
    THEN [ term   |-> [t EXCEPT !.resets = @ + 1],
           result |-> "err",
           error  |-> "reset",
           calls  |-> <<"reset">>,
           spec   |-> ColorSpecNew ]
    ELSE LET st == BuildSpec(self, t.color)
         IN  [ term   |-> [t EXCEPT !.resets = @ + 1, !.sets = @ + 1,
                                    !.active = IF fail = "set_color"
                                                 THEN ColorSpecNew ELSE st.spec],
               result |-> IF fail = "set_color" THEN "err" ELSE "ok",
               error  |-> IF fail = "set_color" THEN "set_color" ELSE "none",
               calls  |-> <<"reset">> \o st.calls \o <<"set_color">>,
               spec   |-> st.spec ]

\* --------------------------------------------------------- StyleCursor
\* Styles the callers of the cursor pass to set_style.
CursorStyles ==
  { Style_new,
    StyleConst("FG_RED"),
    with(StyleConst("FG_RED"), StyleConst("BOLD")),
    with(with(StyleConst("FG_BRIGHT_RED"), StyleConst("FG_YELLOW")), StyleConst("BG_BLUE")),
    StyleConst("BLINK") }

\* Styling a terminal may carry over from writers that used it before.
Leftover == [ColorSpecNew EXCEPT !.fg = "Green", !.underline = TRUE]

\* One finished call, as a test harness with a mock terminal would see it.
Call(op, style, before, r) ==
  [ op |-> op, style |-> style, before |-> before, result |-> r.result,
    error |-> r.error, calls |-> r.calls, spec |-> r.spec ]

\* No cursor yet; a terminal with either capability answer that has
\* received no call so far.
InitTerm ==
  /\ cursor = "none"
  /\ current_style = DEFAULT
  /\ term \in { [color |-> c, active |-> a, resets |-> 0, sets |-> 0] :
                  c \in BOOLEAN, a \in {ColorSpecNew, Leftover} }
  /\ hist = <<>>

\* The cursor's callers: nobody calls Style::apply directly.
Init ==
  /\ InitTerm
  /\ arg = [style |-> DEFAULT, fail |-> "none"]

\* new as it would be if the result of the initial apply were dropped
\* instead of propagated with ?.
New_ignore(fail) ==
  /\ cursor # "live"
  /\ Len(hist) < MaxOps
  /\ LET style == Style_new
         r == apply(style, term, fail)
     IN  /\ term' = r.term
         /\ cursor' = "live"
         /\ current_style' = style
         /\ hist' = Append(hist, Call("new", style, DEFAULT, r))
  /\ UNCHANGED arg

\* StyleCursor::new(term): apply the default Style; Err leaves no cursor.
New(fail) ==
  /\ cursor # "live"
  /\ Len(hist) < MaxOps
  /\ LET style == Style_new
         r == apply(style, term, fail)
     IN  /\ term' = r.term
         /\ cursor' = IF r.result = "ok" THEN "live" ELSE "failed"
         /\ current_style' = IF r.result = "ok" THEN style ELSE current_style
         /\ hist' = Append(hist, Call("new", style, DEFAULT, r))
  /\ UNCHANGED arg

\* set_style as it would be if current_style were assigned before the ? on
\* apply's result.
SetStyle_eager(style, fail) ==
  /\ cursor = "live"
  /\ Len(hist) < MaxOps
  /\ IF style # current_style
       THEN LET r == apply(style, term, fail)
            IN  /\ term' = r.term
                /\ current_style' = style
                /\ hist' = Append(hist, Call("set_style", style, current_style, r))
       ELSE /\ UNCHANGED <<term, current_style>>
            /\ hist' = Append(hist, Call("set_style", style, current_style,
                          [result |-> "ok", error |-> "none", calls |-> <<>>,
                           spec |-> ColorSpecNew]))
  /\ UNCHANGED <<cursor, arg>>

\* set_style as it would be without the style != current_style test.
SetStyle_always(style, fail) ==
  /\ cursor = "live"
  /\ Len(hist) < MaxOps
  /\ LET r == apply(style, term, fail)
     IN  /\ term' = r.term
         /\ current_style' = IF r.result = "ok" THEN style ELSE current_style
         /\ hist' = Append(hist, Call("set_style", style, current_style, r))
  /\ UNCHANGED <<cursor, arg>>

\* set_style as it would be if the assignment to current_style were lost.
SetStyle_forget(style, fail) ==
  /\ cursor = "live"
  /\ Len(hist) < MaxOps
  /\ IF style # current_style
       THEN LET r == apply(style, term, fail)
            IN  /\ term' = r.term
                /\ current_style' = current_style
                /\ hist' = Append(hist, Call("set_style", style, current_style, r))
       ELSE /\ UNCHANGED <<term, current_style>>
            /\ hist' = Append(hist, Call("set_style", style, current_style,
                          [result |-> "ok", error |-> "none", calls |-> <<>>,
                           spec |-> ColorSpecNew]))
  /\ UNCHANGED <<cursor, arg>>

\* StyleCursor::set_style(style).
SetStyle(style, fail) ==
  /\ cursor = "live"
  /\ Len(hist) < MaxOps
  /\ IF style # current_style
       THEN LET r == apply(style, term, fail)
            IN  /\ term' = r.term
                /\ current_style' = IF r.result = "ok" THEN style ELSE current_style
                /\ hist' = Append(hist, Call("set_style", style, current_style, r))
       ELSE /\ UNCHANGED <<term, current_style>>
            /\ hist' = Append(hist, Call("set_style", style, current_style,
                          [result |-> "ok", error |-> "none", calls |-> <<>>,
                           spec |-> ColorSpecNew]))
  /\ UNCHANGED <<cursor, arg>>

Next ==
  \/ \E fail \in Fails : New(fail)
  \/ \E style \in CursorStyles, fail \in Fails : SetStyle(style, fail)

Spec == Init /\ [][Next]_vars

\* ------------------------------------------- Style::apply called directly
RECURSIVE StylesUpTo(_)
StylesUpTo(k) ==
  IF k = 0 THEN {Style_new}
  ELSE LET p == StylesUpTo(k - 1)
       IN  p \cup { with(s, {b}) : s \in p, b \in 0..(Len(StyleBit) - 1) }

\* Every Style with at most MaxBits bits set.
DirectStyles == StylesUpTo(MaxBits)

\* A direct caller holds one Style and one terminal.
InitApply ==
  /\ InitTerm
  /\ arg \in [style : DirectStyles, fail : Fails]

\* The caller applies its Style to the terminal, without a cursor.
ApplyDirect ==
  /\ cursor = "none"
  /\ hist = <<>>
  /\ \E r \in {apply(arg.style, term, arg.fail)} :
         /\ term' = r.term
         /\ hist' = Append(hist, Call("apply", arg.style, DEFAULT, r))
  /\ UNCHANGED <<cursor, current_style, arg>>

NextApply == ApplyDirect

SpecApply == InitApply /\ [][NextApply]_vars

\* ------------------------------------- Style::with and Style::contains
\* Bit positions spread over the foreground, background and emphasis
\* constants.
PoolBits == { (i * 9) % Len(StyleBit) : i \in 0..(MaxPool - 1) }

\* Every Style over the pool.
AlgStyles == SUBSET PoolBits

\* A caller holds three Styles.
InitAlgebra ==
  /\ InitTerm
  /\ arg \in [a : AlgStyles, b : AlgStyles, c : AlgStyles]

\* The caller combines its Styles with Style::with.
WithStep ==
  /\ hist = <<>>
  /\ hist' = << [ op   |-> "with",
                  aa   |-> with(arg.a, arg.a),
                  ab   |-> with(arg.a, arg.b),
                  ba   |-> with(arg.b, arg.a),
                  ab_c |-> with(with(arg.a, arg.b), arg.c),
                  a_bc |-> with(arg.a, with(arg.b, arg.c)),
                  a_d  |-> with(arg.a, Style_new) ] >>
  /\ UNCHANGED <<cursor, current_style, term, arg>>

\* The caller queries its Styles with Style::contains.
ContainsStep ==
  /\ hist = <<>>
  /\ hist' = << [ op   |-> "contains",
                  a_b  |-> contains(arg.a, arg.b),
                  a_a  |-> contains(arg.a, arg.a),
                  a_d  |-> contains(arg.a, Style_new),
                  d_a  |-> contains(Style_new, arg.a),
                  ab_a |-> contains(with(arg.a, arg.b), arg.a),
                  ab_b |-> contains(with(arg.a, arg.b), arg.b) ] >>
  /\ UNCHANGED <<cursor, current_style, term, arg>>

NextAlgebra == WithStep \/ ContainsStep

SpecAlgebra == InitAlgebra /\ [][NextAlgebra]_vars

\* ------------------------------------------------ the named constants
\* A reader of the module looks at two of the declared constants, given by
\* their places in the declaration.
InitConsts ==
  /\ InitTerm
  /\ arg \in [n : DOMAIN StyleBit, m : DOMAIN StyleBit]

\* The reader evaluates the two constants and DEFAULT.
ConstStep ==
  /\ hist = <<>>
  /\ hist' = << [ op |-> "const",
                  x  |-> StyleConst(StyleBit[arg.n]),
                  y  |-> StyleConst(StyleBit[arg.m]),
                  d  |-> DEFAULT ] >>
  /\ UNCHANGED <<cursor, current_style, term, arg>>

NextConsts == ConstStep

SpecConsts == InitConsts /\ [][NextConsts]_vars

\* =====================================================================
\* Properties
\* =====================================================================
Last(seq) == seq[Len(seq)]

\* The calls of a call log that change the terminal (supports_color is a
\* query).
StateChanging(calls) == SelectSeq(calls, LAMBDA c : c # "supports_color")

\* How many times apply ran during a finished call: each apply starts with
\* exactly one reset.
Applies(c) == Cardinality({ k \in DOMAIN c.calls : c.calls[k] = "reset" })

\* The positions in hist of the applies that returned success.
OkApplies == { i \in DOMAIN hist : hist[i].calls # <<>> /\ hist[i].result = "ok" }

\* ---------------------------------------------------------------- C1
\* C1: whenever a cursor exists, current_style is the Style of the most
\* recent apply that returned success (the zero Style right after new).
C1_CurrentIsLastApplied ==
  cursor = "live" =>
    /\ OkApplies # {}
    /\ LET last == CHOOSE i \in OkApplies : \A j \in OkApplies : j <= i
       IN  current_style = hist[last].style
    /\ (\A i \in DOMAIN hist : hist[i].op = "set_style" => hist[i].result = "err")
          => current_style = DEFAULT

\* A cursor whose last set_style failed after an earlier one had succeeded.
C1_Witness ==
  /\ cursor = "live"
  /\ Len(hist) >= 3
  /\ Last(hist).op = "set_style" /\ Last(hist).result = "err"
  /\ hist[Len(hist) - 1].op = "set_style" /\ hist[Len(hist) - 1].result = "ok"
  /\ current_style # DEFAULT

\* ---------------------------------------------------------------- C2
\* C2: a set_style whose argument equals current_style returns Ok, makes
\* no call on the terminal, and leaves current_style and the terminal as
\* they were.
C2_SameStyleNoOp ==
  [][ (cursor = "live" /\ Len(hist') = Len(hist) + 1
         /\ Last(hist').op = "set_style" /\ Last(hist').style = current_style)
      => /\ Last(hist').result = "ok"
         /\ Last(hist').calls = <<>>
         /\ term' = term
         /\ current_style' = current_style ]_vars

\* set_style was just called with the non-default style already current.
C2_Witness ==
  /\ hist # <<>>
  /\ Last(hist).op = "set_style"
  /\ Last(hist).style = Last(hist).before
  /\ Last(hist).style # DEFAULT
  /\ term.active # ColorSpecNew

\* ---------------------------------------------------------------- C3
\* C3: a set_style whose argument differs from current_style runs
\* style.apply on the terminal; on Ok current_style becomes the argument,
\* on Err the error is returned and current_style keeps its value.
C3_DifferentStyleApplies ==
  [][ (cursor = "live" /\ Len(hist') = Len(hist) + 1
         /\ Last(hist').op = "set_style" /\ Last(hist').style # current_style)
      => \E fail \in Fails :
           LET r == apply(Last(hist').style, term, fail)
           IN  /\ term' = r.term
               /\ Last(hist').calls = r.calls
               /\ Last(hist').result = r.result
               /\ r.result = "ok"  => current_style' = Last(hist').style
               /\ r.result = "err" => current_style' = current_style ]_vars

\* A set_style with a new style just failed at set_color and the cursor
\* still holds the non-default style it had.
C3_Witness ==
  /\ hist # <<>>
  /\ Last(hist).op = "set_style"
  /\ Last(hist).style # Last(hist).before
  /\ Last(hist).result = "err"
  /\ Last(hist).calls[Len(Last(hist).calls)] = "set_color"
  /\ current_style = Last(hist).before
  /\ current_style # DEFAULT

\* ---------------------------------------------------------------- C4
\* C4 as stated: every call of apply makes exactly two state-changing
\* calls on the terminal, reset then set_color.
C4_AlwaysResetThenSet ==
  hist # <<>> => StateChanging(hist[1].calls) = <<"reset", "set_color">>

\* C4 (amended): every call of apply, for every Style including the zero
\* Style, first calls reset once; if that reset succeeds it then calls
\* set_color once and makes no other state-changing call; if the reset
\* fails, apply returns and set_color is not called.
C4_ResetThenSetUnlessResetFails ==
  hist # <<>> =>
    /\ hist[1].calls # <<>>
    /\ hist[1].calls[1] = "reset"
    /\ term.resets = 1
    /\ IF arg.fail = "reset"
         THEN /\ StateChanging(hist[1].calls) = <<"reset">>
              /\ term.sets = 0
         ELSE /\ StateChanging(hist[1].calls) = <<"reset", "set_color">>
              /\ Last(hist[1].calls) = "set_color"
              /\ term.sets = 1

\* The zero Style was applied and both terminal calls went through.
C4_Witness ==
  /\ hist # <<>>
  /\ hist[1].op = "apply"
  /\ hist[1].style = DEFAULT
  /\ hist[1].result = "ok"
  /\ term.resets = 1 /\ term.sets = 1

\* ---------------------------------------------------------------- C5
\* C5: a new that returns a cursor has issued exactly one reset followed by
\* one set_color with the empty ColorSpec, and it precedes every set_style;
\* a new whose apply fails returns the error and leaves no cursor.
C5_NewAppliesDefaultOnce ==
  /\ \A i \in DOMAIN hist :
        /\ (hist[i].op = "new" /\ hist[i].result = "ok") =>
              /\ hist[i].calls = <<"reset", "set_color">>
              /\ hist[i].spec = ColorSpecNew
        /\ hist[i].op = "set_style" =>
              /\ i > 1
              /\ \E j \in 1..(i - 1) : hist[j].op = "new" /\ hist[j].result = "ok"
  /\ cursor = "live" =>
        Cardinality({ i \in DOMAIN hist : hist[i].op = "new" /\ hist[i].result = "ok" }) = 1
  /\ (hist # <<>> /\ Last(hist).op = "new") =>
        /\ Last(hist).result = "ok"  => cursor = "live" /\ term.active = ColorSpecNew
        /\ Last(hist).result = "err" => cursor = "failed"
  /\ (Len(hist) = 1 /\ cursor = "live") => term.resets = 1 /\ term.sets = 1

\* A cursor was built and a set_style has run on it since.
C5_Witness ==
  /\ Len(hist) >= 2
  /\ hist[1].op = "new" /\ hist[1].result = "ok"
  /\ hist[2].op = "set_style"
  /\ cursor = "live"

\* ---------------------------------------------------------------- C6
\* The terminal has returned no error so far.
NeverFailed == \A i \in DOMAIN hist : hist[i].result = "ok"

\* Positions i where set_style was called at i and again at i + 1.
SetStylePairs ==
  { i \in 1..(Len(hist) - 1) : hist[i].op = "set_style" /\ hist[i + 1].op = "set_style" }

\* C6 as stated: two set_style(s) in a row with the same s trigger exactly
\* one apply, for every s.
C6_TwiceSameOneApply ==
  NeverFailed =>
    \A i \in SetStylePairs :
      hist[i].style = hist[i + 1].style => Applies(hist[i]) + Applies(hist[i + 1]) = 1

\* C6 (amended): two set_style(s) in a row with the same s, on a terminal
\* that never fails, trigger exactly one apply (one reset and one
\* set_color) when s differs from the cursor's current style before the
\* first call, and none when s already is the current style; the second
\* call never touches the terminal.
C6_TwiceSameOneApplyIfNew ==
  NeverFailed =>
    \A i \in SetStylePairs :
      hist[i].style = hist[i + 1].style =>
        /\ hist[i + 1].calls = <<>>
        /\ IF hist[i].style # hist[i].before
             THEN /\ Applies(hist[i]) + Applies(hist[i + 1]) = 1
                  /\ StateChanging(hist[i].calls \o hist[i + 1].calls)
                       = <<"reset", "set_color">>
             ELSE Applies(hist[i]) + Applies(hist[i + 1]) = 0

\* set_style(s) ran twice in a row with an s that was new to the cursor.
C6_Witness ==
  /\ NeverFailed
  /\ \E i \in SetStylePairs :
       /\ hist[i].style = hist[i + 1].style
       /\ hist[i].style # hist[i].before
       /\ Applies(hist[i]) = 1

\* ---------------------------------------------------------------- C7
\* C7 as stated: set_style(a) then set_style(b) with a != b trigger
\* exactly two applies.
C7_TwoStylesTwoApplies ==
  NeverFailed =>
    \A i \in SetStylePairs :
      hist[i].style # hist[i + 1].style => Applies(hist[i]) + Applies(hist[i + 1]) = 2

\* C7 (amended): set_style(a) then set_style(b) with a != b, on a terminal
\* that never fails, trigger exactly two applies when a differs from the
\* cursor's current style before the first call, and exactly one (that of
\* b) when a already is the current style.
C7_TwoStylesTwoAppliesIfNew ==
  NeverFailed =>
    \A i \in SetStylePairs :
      hist[i].style # hist[i + 1].style =>
        /\ Applies(hist[i + 1]) = 1
        /\ Applies(hist[i]) + Applies(hist[i + 1])
             = IF hist[i].style # hist[i].before THEN 2 ELSE 1

\* set_style(a) then set_style(b) ran with a != b, a new to the cursor.
C7_Witness ==
  /\ NeverFailed
  /\ \E i \in SetStylePairs :
       /\ hist[i].style # hist[i + 1].style
       /\ hist[i].style # hist[i].before
       /\ Applies(hist[i]) + Applies(hist[i + 1]) = 2

\* ---------------------------------------------------------------- C8
\* The four emphasis constants apply translates.
BOLD == StyleConst("BOLD")
DIM == StyleConst("DIM")
ITALIC == StyleConst("ITALIC")
UNDERLINE == StyleConst("UNDERLINE")

\* The ColorSpec of the direct apply reached set_color.
Submitted == hist # <<>> /\ hist[1].op = "apply" /\ Last(hist[1].calls) = "set_color"

\* C8: when supports_color() is false, the submitted ColorSpec has no
\* foreground and no background, and bold, dimmed, italic and underline
\* are set exactly when the Style has BOLD, DIM, ITALIC and UNDERLINE.
C8_NoColorWithoutSupport ==
  (Submitted /\ ~term.color) =>
    LET sp == hist[1].spec
        s  == hist[1].style
    IN  /\ sp.fg = "None"
        /\ sp.bg = "None"
        /\ sp.bold      <=> contains(s, BOLD)
        /\ sp.dimmed    <=> contains(s, DIM)
        /\ sp.italic    <=> contains(s, ITALIC)
        /\ sp.underline <=> contains(s, UNDERLINE)

\* A Style with a foreground, a background and BOLD was applied to a
\* terminal without color support.
C8_Witness ==
  /\ Submitted
  /\ ~term.color
  /\ hist[1].style = with(with(StyleConst("FG_RED"), StyleConst("BG_BRIGHT_BLUE")),
                          StyleConst("BOLD"))
  /\ hist[1].spec.bold

\* ---------------------------------------------------------------- C9
\* Bit positions of the foreground, background and bright color constants.
FgBits == UNION { FgColors[i].style : i \in DOMAIN FgColors }
BgBits == UNION { BgColors[i].style : i \in DOMAIN BgColors }
BrightBits ==
  UNION ({ FgColors[i].style : i \in { k \in DOMAIN FgColors : FgColors[k].bright } }
         \cup { BgColors[i].style : i \in { k \in DOMAIN BgColors : BgColors[k].bright } })

\* The entry of a color table for the highest bit of bits, i.e. the last
\* one in declared attribute order.
LastEntry(table, bits) ==
  LET b == CHOOSE x \in bits : \A y \in bits : y <= x
  IN  table[CHOOSE i \in DOMAIN table : table[i].style = {b}]

\* C9 as stated: with several foreground (background) bits and color
\* support, hue and intense are both those of the last set bit.
C9_LastBitDecidesHueAndIntense ==
  (Submitted /\ term.color) =>
    LET sp == hist[1].spec
        fg == hist[1].style \cap FgBits
        bg == hist[1].style \cap BgBits
    IN  /\ (Cardinality(fg) >= 2 /\ bg = {}) =>
              /\ sp.fg = LastEntry(FgColors, fg).color
              /\ sp.intense = LastEntry(FgColors, fg).bright
        /\ (Cardinality(bg) >= 2 /\ fg = {}) =>
              /\ sp.bg = LastEntry(BgColors, bg).color
              /\ sp.intense = LastEntry(BgColors, bg).bright

\* C9 (amended): with several foreground (background) bits and color
\* support, the foreground (background) hue is that of the last set
\* foreground (background) bit in declared order and earlier bits leave no
\* trace in the hue; the intense marking is not decided by the last bit: it
\* is set exactly when some set color bit, foreground or background, is a
\* bright variant.
C9_LastBitDecidesHue ==
  (Submitted /\ term.color) =>
    LET sp == hist[1].spec
        fg == hist[1].style \cap FgBits
        bg == hist[1].style \cap BgBits
    IN  /\ Cardinality(fg) >= 2 => sp.fg = LastEntry(FgColors, fg).color
        /\ Cardinality(bg) >= 2 => sp.bg = LastEntry(BgColors, bg).color
        /\ (Cardinality(fg) >= 2 \/ Cardinality(bg) >= 2) =>
              (sp.intense <=> hist[1].style \cap BrightBits # {})

\* FG_BRIGHT_RED and FG_YELLOW were applied together on a color terminal:
\* the hue is that of FG_YELLOW, the intense marking that of FG_BRIGHT_RED.
C9_Witness ==
  /\ Submitted
  /\ term.color
  /\ hist[1].style = with(StyleConst("FG_BRIGHT_RED"), StyleConst("FG_YELLOW"))
  /\ hist[1].spec.fg = "Yellow"
  /\ hist[1].spec.intense

\* --------------------------------------------------------------- C10
\* Bit positions of the four attributes apply does not translate.
UnsupportedBits ==
  UNION { StyleConst(n) : n \in {"BLINK", "STANDOUT", "REVERSE", "SECURE"} }

\* C10: for a Style made only of BLINK, STANDOUT, REVERSE and SECURE bits,
\* on any terminal, apply calls reset and the ColorSpec it submits is the
\* empty one.
C10_UnsupportedBitsEmptySpec ==
  (hist # <<>> /\ hist[1].op = "apply" /\ hist[1].style \subseteq UnsupportedBits) =>
    /\ hist[1].calls[1] = "reset"
    /\ hist[1].spec = ColorSpecNew
    /\ arg.fail # "reset" => /\ Submitted
                             /\ hist[1].calls = <<"reset", "set_color">>
    /\ arg.fail = "none" => term.active = ColorSpecNew

\* BLINK, STANDOUT and SECURE were applied together on a color terminal.
C10_Witness ==
  /\ Submitted
  /\ term.color
  /\ hist[1].result = "ok"
  /\ hist[1].style = UNION { StyleConst(n) : n \in {"BLINK", "STANDOUT", "SECURE"} }
  /\ term.active = ColorSpecNew

\* --------------------------------------------------------------- C11
\* The eight foreground constants that are not bright variants, each with
\* the hue its name carries.
PlainFg ==
  { <<"FG_BLACK", "Black">>, <<"FG_BLUE", "Blue">>, <<"FG_CYAN", "Cyan">>,
    <<"FG_GREEN", "Green">>, <<"FG_MAGENTA", "Magenta">>, <<"FG_RED", "Red">>,
    <<"FG_WHITE", "White">>, <<"FG_YELLOW", "Yellow">> }

\* Style::new().with(FG_x).with(BOLD) for each of them.
PlainFgWithBold ==
  { [style |-> with(with(Style_new, StyleConst(c[1])), BOLD), hue |-> c[2]] : c \in PlainFg }

\* C11: for a Style made of one non-bright foreground bit and BOLD, apply
\* submits {fg = that hue, bold} with nothing else set on a terminal that
\* supports color, and {bold} with nothing else set on one that does not.
C11_PlainFgWithBold ==
  Submitted =>
    \A c \in PlainFgWithBold :
      hist[1].style = c.style =>
        hist[1].spec = IF term.color
                         THEN [ColorSpecNew EXCEPT !.fg = c.hue, !.bold = TRUE]
                         ELSE [ColorSpecNew EXCEPT !.bold = TRUE]

\* Style::new().with(FG_RED).with(BOLD) was applied on a color terminal.
C11_Witness ==
  /\ Submitted
  /\ term.color
  /\ hist[1].style = with(with(Style_new, StyleConst("FG_RED")), StyleConst("BOLD"))
  /\ hist[1].spec.fg = "Red"
  /\ hist[1].spec.bold

\* --------------------------------------------------------------- C12
AllBits == 0..(Len(StyleBit) - 1)

\* C12: with is the bitwise union, and it is idempotent, commutative and
\* associative, with the zero Style as identity.
C12_WithIsUnion ==
  (hist # <<>> /\ hist[1].op = "with") =>
    /\ \A bit \in AllBits : bit \in hist[1].ab <=> (bit \in arg.a \/ bit \in arg.b)
    /\ hist[1].aa = arg.a
    /\ hist[1].ab = hist[1].ba
    /\ hist[1].ab_c = hist[1].a_bc
    /\ hist[1].a_d = arg.a

\* Three different non-zero Styles that overlap pairwise were combined.
C12_Witness ==
  /\ hist # <<>>
  /\ hist[1].op = "with"
  /\ arg.a # arg.b /\ arg.b # arg.c /\ arg.a # arg.c
  /\ arg.a \cap arg.b # {} /\ arg.b \cap arg.c # {}
  /\ hist[1].ab # arg.a /\ hist[1].ab # arg.b

\* --------------------------------------------------------------- C13
\* C13: a.contains(b) is true exactly when every bit of b is a bit of a;
\* x.contains(x) and x.contains(default) always hold, default.contains(x)
\* holds only for the zero Style, and a.with(b) contains a and b.
C13_ContainsIsSubset ==
  (hist # <<>> /\ hist[1].op = "contains") =>
    /\ hist[1].a_b <=> (\A bit \in AllBits : bit \in arg.b => bit \in arg.a)
    /\ hist[1].a_a
    /\ hist[1].a_d
    /\ hist[1].d_a <=> arg.a = DEFAULT
    /\ hist[1].ab_a
    /\ hist[1].ab_b

\* contains answered false for two Styles that share a bit.
C13_Witness ==
  /\ hist # <<>>
  /\ hist[1].op = "contains"
  /\ arg.a \cap arg.b # {}
  /\ ~hist[1].a_b
  /\ ~hist[1].d_a

\* --------------------------------------------------------------- C14
\* The places in the declaration of the constants the fg_color! and the
\* bg_color! invocations name.
FgNames ==
  { i \in DOMAIN StyleBit : \E p \in DOMAIN FgColors : FgColors[p].style = StyleConst(StyleBit[i]) }
BgNames ==
  { i \in DOMAIN StyleBit : \E p \in DOMAIN BgColors : BgColors[p].style = StyleConst(StyleBit[i]) }

\* C14: there are 40 named constants (16 foreground, 16 background, 8
\* emphasis); each has exactly one bit set, at the position below 64 given
\* by its place in the declaration; no two share a bit; DEFAULT has no bit
\* set and differs from every constant.
C14_OneBitPerConstant ==
  /\ Len(StyleBit) = 40
  /\ Cardinality(FgNames) = 16
  /\ Cardinality(BgNames) = 16
  /\ (hist # <<>> /\ hist[1].op = "const") =>
        /\ Cardinality(hist[1].x) = 1
        /\ hist[1].x = {arg.n - 1}
        /\ \A bit \in hist[1].x : bit >= 0 /\ bit < BitsWidth
        /\ arg.n # arg.m => hist[1].x \cap hist[1].y = {}
        /\ hist[1].d = {}
        /\ hist[1].d # hist[1].x

\* SECURE, the last constant declared, was compared with FG_BLACK, the
\* first.
C14_Witness ==
  /\ hist # <<>>
  /\ hist[1].op = "const"
  /\ StyleBit[arg.n] = "SECURE" /\ StyleBit[arg.m] = "FG_BLACK"
  /\ hist[1].x = {39} /\ hist[1].y = {0}

\* --------------------------------------------------------------- C15
\* How often a call occurs in a call log.
Count(calls, c) == Cardinality({ k \in DOMAIN calls : calls[k] = c })

\* C15: apply returns the terminal's failure unchanged.  If reset fails,
\* apply returns reset's error and set_color is never called; if reset
\* succeeds, set_color is called exactly once and apply returns its result;
\* no failure becomes a success and no call is retried.
C15_ApplyPropagatesFailure ==
  (hist # <<>> /\ hist[1].op = "apply") =>
    LET h == hist[1]
    IN  /\ Count(h.calls, "reset") = 1
        /\ term.resets = 1
        /\ arg.fail = "reset" =>
              /\ h.result = "err" /\ h.error = "reset"
              /\ Count(h.calls, "set_color") = 0
              /\ term.sets = 0
              /\ Last(h.calls) = "reset"
        /\ arg.fail # "reset" =>
              /\ Count(h.calls, "set_color") = 1
              /\ term.sets = 1
              /\ arg.fail = "set_color" => h.result = "err" /\ h.error = "set_color"
              /\ arg.fail = "none" => h.result = "ok" /\ h.error = "none"
        /\ h.result = "ok" <=> arg.fail = "none"

\* An apply of a Style with color bits failed at reset.
C15_Witness ==
  /\ hist # <<>>
  /\ hist[1].op = "apply"
  /\ arg.fail = "reset"
  /\ hist[1].style \cap FgBits # {}
  /\ hist[1].result = "err"
  /\ term.sets = 0

\* --------------------------------------------------------------- C16
\* The ColorSpec apply builds for a Style on this terminal.
Translation(style) == BuildSpec(style, term.color).spec

\* The positions in hist of the calls that reached set_color.
Submissions == { i \in DOMAIN hist : hist[i].calls # <<>> /\ Last(hist[i].calls) = "set_color" }

\* C16: on a terminal that never fails and is written only through the
\* cursor, after new and after every set_style the ColorSpec submitted last
\* is the translation of current_style, and it is what the terminal shows.
C16_CursorMirrorsTerminal ==
  (cursor = "live" /\ NeverFailed) =>
    /\ Submissions # {}
    /\ LET last == CHOOSE i \in Submissions : \A j \in Submissions : j <= i
       IN  hist[last].spec = Translation(current_style)
    /\ term.active = Translation(current_style)

\* On a color terminal that never failed, a colored style was set, set
\* again, and is still what the terminal shows.
C16_Witness ==
  /\ cursor = "live"
  /\ NeverFailed
  /\ term.color
  /\ Len(hist) >= 3
  /\ Last(hist).op = "set_style" /\ Last(hist).calls = <<>>
  /\ current_style \cap FgBits # {}
  /\ term.active.fg # "None"

\* --------------------------------------------------------------- C17
\* The terminal does not show the translation of current_style.
OutOfStep == cursor = "live" /\ term.active # Translation(current_style)

\* The last call was a set_style whose apply got through reset and failed
\* at set_color.
FailedAtSetColor ==
  /\ cursor = "live"
  /\ hist # <<>>
  /\ Last(hist).op = "set_style"
  /\ Last(hist).error = "set_color"

\* The step is a call of set_style.
SetStyleStep == Len(hist') = Len(hist) + 1 /\ Last(hist').op = "set_style"

\* C17 as stated: after a set_style(t) that failed at set_color,
\* current_style holds the old style and the terminal no longer shows it.
C17_FailureAlwaysOutOfStep ==
  FailedAtSetColor =>
    /\ current_style = Last(hist).before
    /\ current_style # Last(hist).style
    /\ OutOfStep

\* C17 (amended): after a set_style(t) that failed at set_color,
\* current_style holds the old non-target style and the terminal is back at
\* default styling; it no longer shows the old style unless the old style
\* translates to the empty ColorSpec (as the zero Style does).  While the
\* terminal is out of step, set_style(current_style) is a no-op that does
\* not touch the terminal, and the terminal stays out of step until a
\* set_style with a different style succeeds, which puts it back in step.
C17_StaleUntilNewStyleSucceeds ==
  /\ [](FailedAtSetColor =>
          /\ current_style = Last(hist).before
          /\ current_style # Last(hist).style
          /\ term.active = ColorSpecNew
          /\ OutOfStep <=> Translation(current_style) # ColorSpecNew)
  /\ [][ (OutOfStep /\ SetStyleStep) =>
           /\ Last(hist').style = current_style =>
                 /\ Last(hist').result = "ok"
                 /\ Last(hist').calls = <<>>
                 /\ term' = term
           /\ IF Last(hist').style # current_style /\ Last(hist').result = "ok"
                THEN ~OutOfStep'
                ELSE OutOfStep' ]_vars

\* A colored style was set, the next set_style failed at set_color, and
\* set_style with the old style was then called without effect: the
\* terminal is at default styling and the cursor still holds the old style.
C17_Witness ==
  /\ Len(hist) >= 3
  /\ hist[Len(hist) - 1].op = "set_style"
  /\ hist[Len(hist) - 1].error = "set_color"
  /\ Last(hist).op = "set_style"
  /\ Last(hist).style = Last(hist).before
  /\ Last(hist).calls = <<>>
  /\ OutOfStep
  /\ term.active = ColorSpecNew

\* --------------------------------------------------------------- C18
\* C18: a set_style(t) that follows a failed set_style(t) is not
\* deduplicated: it applies t afresh (reset, then set_color if the reset
\* succeeded), and so does every further retry, until an apply of t
\* succeeds; only then is a repeated set_style(t) a no-op.
C18_RetryAfterFailureApplies ==
  \A i \in SetStylePairs :
    hist[i].style = hist[i + 1].style =>
      IF hist[i].result = "err"
        THEN /\ hist[i + 1].before # hist[i + 1].style
             /\ Applies(hist[i + 1]) = 1
             /\ hist[i + 1].calls[1] = "reset"
             /\ StateChanging(hist[i + 1].calls) =
                  IF hist[i + 1].error = "reset"
                    THEN <<"reset">> ELSE <<"reset", "set_color">>
        ELSE hist[i + 1].calls = <<>>

\* set_style(t) failed twice, once at reset and once at set_color, and
\* succeeded at the third attempt.
C18_Witness ==
  /\ Len(hist) = 4
  /\ \A i \in 2..4 : hist[i].op = "set_style" /\ hist[i].style = hist[2].style
  /\ hist[2].error = "reset"
  /\ hist[3].error = "set_color"
  /\ hist[4].result = "ok" /\ Applies(hist[4]) = 1
  /\ current_style = hist[2].style

\* --------------------------------------------------------------- C19
\* The 8 FG_BRIGHT_* and 8 BG_BRIGHT_* constants, by name.
BrightNames ==
  { "FG_BRIGHT_BLACK", "FG_BRIGHT_BLUE", "FG_BRIGHT_CYAN", "FG_BRIGHT_GREEN",
    "FG_BRIGHT_MAGENTA", "FG_BRIGHT_RED", "FG_BRIGHT_WHITE", "FG_BRIGHT_YELLOW",
    "BG_BRIGHT_BLACK", "BG_BRIGHT_BLUE", "BG_BRIGHT_CYAN", "BG_BRIGHT_GREEN",
    "BG_BRIGHT_MAGENTA", "BG_BRIGHT_RED", "BG_BRIGHT_WHITE", "BG_BRIGHT_YELLOW" }

BrightByName == UNION { StyleConst(n) : n \in BrightNames }

\* C19: the submitted ColorSpec has one intense flag for foreground and
\* background.  With color support it is true exactly when the Style has
\* at least one of the 16 bright color bits, whatever else is set; without
\* color support it is false.
C19_IntenseIffAnyBright ==
  Submitted =>
    LET bright == hist[1].style \cap BrightByName
    IN  /\ Cardinality(BrightByName) = 16
        /\ term.color  => (hist[1].spec.intense <=> bright # {})
        /\ ~term.color => ~hist[1].spec.intense

\* A bright background bit was followed, in declared order, by plain
\* foreground and background bits, and intense stayed set.
C19_Witness ==
  /\ Submitted
  /\ term.color
  /\ hist[1].style = UNION { StyleConst(n) : n \in {"BG_BRIGHT_BLACK", "BG_GREEN", "FG_RED"} }
  /\ hist[1].spec.intense
  /\ hist[1].spec.bg = "Green"
  /\ hist[1].spec.fg = "Red"

====
